---- MODULE Spec2Model ----
(***************************************************************************)
(* Model of the main-process handlers of race-blur-detector                *)
(* (src/preload.js): scanJpegs, readFileBase64, validateJpeg,              *)
(* scanMultipleFolders, estimateScanTime and moveToReview, over a model    *)
(* of the file system the handlers read and change.                        *)
(* The sharpness scorer, which src/ does not hold, is modelled from its     *)
(* specification (sections 3 to 7).                                        *)
(*                                                                         *)
(* A file name is a sequence of one-character strings, a path is a         *)
(* sequence of names (path.join appends a name, path.basename is the last  *)
(* name), and the empty path stands for the working directory (and for     *)
(* the empty string, which JavaScript treats as falsy).                    *)
(* An optional argument is a set: {} when it is undefined, {v} otherwise.  *)
(***************************************************************************)
EXTENDS Integers, Sequences, FiniteSets, TLC

VARIABLES
    fs,          \* the file system: existing path -> node
    fs0,         \* the file system the behaviour started with
    pre,         \* the file system before the last call
    last,        \* the last call: its handler, arguments and return value
    reviewDirs,  \* the review directories moveToReview has returned so far
    moves        \* the number of moveToReview calls so far

vars == <<fs, fs0, pre, last, reviewDirs, moves>>

\* ------------------------------------------------------------------ bounds

\* Longest `files` list handed to moveToReview.
MaxFiles == 2
\* Most moveToReview calls of one behaviour.
MaxMoves == 1
\* Longest folder list handed to scanMultipleFolders.
MaxFolders == 3
\* Most entries of the scanned folder in the scanJpegs specification.
MaxEntries == 2
\* Longest file, in bytes, in the readFileBase64 / validateJpeg specification.
MaxBytes == 4
\* Largest remainingFiles handed to estimateScanTime.
MaxRemaining == 12
\* the largest width and height of a scored image
MaxWidth == 4
MaxHeight == 3
\* the largest score numerator and threshold handed to the classification
MaxScore == 25
MaxThreshold == 10

\* ------------------------------------------------------------------- names

n_a_jpg == <<"a", ".", "j", "p", "g">>
n_b_jpg == <<"b", ".", "j", "p", "g">>
n_a_JPG == <<"a", ".", "J", "P", "G">>
n_b_jpeg == <<"b", ".", "j", "p", "e", "g">>
n_b_JpEg == <<"b", ".", "J", "p", "E", "g">>
n_a_jpe == <<"a", ".", "j", "p", "e">>
n_a_jpgg == <<"a", ".", "j", "p", "g", "g">>
n_a_jpg2 == <<"a", ".", "j", "p", "g", "2">>
n_a_png == <<"a", ".", "p", "n", "g">>
n_hidden_jpg == <<".", "h", ".", "j", "p", "g">>
n_dot_jpg == <<".", "j", "p", "g">>
n_jpg == <<"j", "p", "g">>
n_ajpg == <<"a", "j", "p", "g">>
n_A == <<"A">>
n_B == <<"B">>
n_N == <<"N">>
n_R == <<"R">>
n_sub == <<"s", "u", "b">>
n_my_review == <<"m", "y", "_", "r", "e", "v", "i", "e", "w">>
n_review_blurry ==
    <<"r", "e", "v", "i", "e", "w", "_", "b", "l", "u", "r", "r", "y">>

\* The order in which the file system lists the names of a directory.
NameOrder ==
    << n_a_jpg, n_b_jpg, n_a_JPG, n_b_jpeg, n_b_JpEg, n_a_jpe, n_a_jpgg,
       n_a_jpg2, n_a_png, n_hidden_jpg, n_dot_jpg, n_jpg, n_ajpg,
       n_A, n_B, n_N, n_R, n_sub, n_my_review, n_review_blurry >>

\* ------------------------------------------------------------- file system

Root == <<>>

DirNode == [kind |-> "dir", id |-> 0, bytes |-> <<>>, statOk |-> TRUE]
SymlinkNode == [kind |-> "symlink", id |-> 0, bytes |-> <<>>, statOk |-> TRUE]
FileNode(i, b, ok) == [kind |-> "file", id |-> i, bytes |-> b, statOk |-> ok]

Join(dir, name) == Append(dir, name)
Basename(p) == IF p = <<>> THEN <<>> ELSE p[Len(p)]
Parent(p) == SubSeq(p, 1, Len(p) - 1)
IsPrefix(d, p) == Len(d) <= Len(p) /\ SubSeq(p, 1, Len(d)) = d

Exists(f, p) == p \in DOMAIN f
IsDir(f, p) == Exists(f, p) /\ f[p].kind = "dir"
IsFile(f, p) == Exists(f, p) /\ f[p].kind = "file"

\* fs.promises.readdir(folder, {withFileTypes: true}): the names of the
\* folder's entries, or an error when the folder is missing or no directory.
Readdir(f, folder) ==
    IF ~Exists(f, folder) THEN [ok |-> FALSE, error |-> "ENOENT", names |-> <<>>]
    ELSE IF ~IsDir(f, folder)
         THEN [ok |-> FALSE, error |-> "ENOTDIR", names |-> <<>>]
    ELSE [ok |-> TRUE, error |-> "",
          names |-> SelectSeq(NameOrder, LAMBDA n : Exists(f, Join(folder, n)))]

\* ----------------------------------------------------------------- scanJpegs

\* The /i flag: a letter of the pattern matches both of its cases.
MatchesIgnoreCase(c, lower) ==
    \/ c = lower
    \/ lower = "j" /\ c = "J"
    \/ lower = "p" /\ c = "P"
    \/ lower = "e" /\ c = "E"
    \/ lower = "g" /\ c = "G"

\* /\.(jpe?g)$/i matched starting at position i of the name.
RegexMatchAt(name, i) ==
    LET n == Len(name)
        at(k, lower) == k <= n /\ MatchesIgnoreCase(name[k], lower)
    IN  /\ name[i] = "."
        /\ at(i + 1, "j")
        /\ at(i + 2, "p")
        /\ \/ at(i + 3, "e") /\ at(i + 4, "g") /\ i + 4 = n
           \/ at(i + 3, "g") /\ i + 3 = n

\* Mutant: the pattern without the /i flag and with a mandatory "e".
JpegRegexTestStrict(name) ==
    LET n == Len(name)
    IN  n >= 5 /\ SubSeq(name, n - 4, n) = <<".", "j", "p", "e", "g">>

\* /\.(jpe?g)$/i.test(name)
JpegRegexTest(name) == \E i \in 1..Len(name) : RegexMatchAt(name, i)

\* name.startsWith(".")
StartsWithDot(name) == Len(name) >= 1 /\ name[1] = "."

\* Mutant: a scan that descends into the subdirectories of the folder.
RECURSIVE ScanEntriesRecursive(_, _, _)
ScanEntriesRecursive(f, folder, names) ==
    IF names = <<>> THEN <<>>
    ELSE LET name == Head(names)
             p == Join(folder, name)
             rest == ScanEntriesRecursive(f, folder, Tail(names))
         IN  IF IsDir(f, p)
             THEN ScanEntriesRecursive(f, p, Readdir(f, p).names) \o rest
             ELSE IF ~IsFile(f, p) \/ ~JpegRegexTest(name) \/ StartsWithDot(name)
             THEN rest
             ELSE IF ~f[p].statOk THEN rest
             ELSE IF Len(f[p].bytes) = 0 THEN rest
             ELSE <<[name |-> name, path |-> p]>> \o rest

\* The loop of scanJpegs over the directory entries still to be visited.
RECURSIVE ScanEntries(_, _, _)
ScanEntries(f, folder, names) ==
    IF names = <<>> THEN <<>>
    ELSE LET name == Head(names)
             p == Join(folder, name)
             rest == ScanEntries(f, folder, Tail(names))
         IN  IF ~IsFile(f, p) \/ ~JpegRegexTest(name) \/ StartsWithDot(name)
             THEN rest
             ELSE IF ~f[p].statOk THEN rest
             ELSE IF Len(f[p].bytes) = 0 THEN rest
             ELSE <<[name |-> name, path |-> p]>> \o rest

\* Mutant: scanJpegs without its outer try/catch.
scanJpegsUncaught(f, folderPath) ==
    LET dir == Readdir(f, folderPath)
    IN  IF dir.ok
        THEN [kind |-> "array", items |-> ScanEntries(f, folderPath, dir.names)]
        ELSE [kind |-> "threw"]

\* The value scanJpegs resolves to: an array of {name, path}, or {error}.
scanJpegs(f, folderPath) ==
    LET dir == Readdir(f, folderPath)
    IN  IF dir.ok
        THEN [kind |-> "array", items |-> ScanEntries(f, folderPath, dir.names)]
        ELSE [kind |-> "error", error |-> dir.error]

\* ------------------------------------------------------- scanMultipleFolders

\* Mutant: the loop without the Array.isArray guard, ended by the first
\* folder whose scan returns an error.
RECURSIVE scanMultipleFoldersStopAtError(_, _)
scanMultipleFoldersStopAtError(f, folderPaths) ==
    IF folderPaths = <<>> THEN <<>>
    ELSE LET jpegs == scanJpegs(f, Head(folderPaths))
         IN  IF jpegs.kind = "array"
             THEN jpegs.items \o scanMultipleFoldersStopAtError(f, Tail(folderPaths))
             ELSE <<>>

\* The loop of scanMultipleFolders: results.push(...jpegs) for every folder
\* whose scan returned an array.
RECURSIVE scanMultipleFolders(_, _)
scanMultipleFolders(f, folderPaths) ==
    IF folderPaths = <<>> THEN <<>>
    ELSE LET jpegs == scanJpegs(f, Head(folderPaths))
             rest == scanMultipleFolders(f, Tail(folderPaths))
         IN  IF jpegs.kind = "array" THEN jpegs.items \o rest ELSE rest

\* ------------------------------------------- readFileBase64 and validateJpeg

Base64Alphabet ==
    << "A", "B", "C", "D", "E", "F", "G", "H", "I", "J", "K", "L", "M",
       "N", "O", "P", "Q", "R", "S", "T", "U", "V", "W", "X", "Y", "Z",
       "a", "b", "c", "d", "e", "f", "g", "h", "i", "j", "k", "l", "m",
       "n", "o", "p", "q", "r", "s", "t", "u", "v", "w", "x", "y", "z",
       "0", "1", "2", "3", "4", "5", "6", "7", "8", "9", "+", "/" >>

Base64Char(sextet) == Base64Alphabet[sextet + 1]

\* Mutant: an encoder of whole three-byte groups only, which drops a last
\* group of one or two bytes.
RECURSIVE Base64EncodeWholeGroups(_)
Base64EncodeWholeGroups(buf) ==
    IF Len(buf) < 3 THEN <<>>
    ELSE << Base64Char(buf[1] \div 4),
            Base64Char((buf[1] % 4) * 16 + buf[2] \div 16),
            Base64Char((buf[2] % 16) * 4 + buf[3] \div 64),
            Base64Char(buf[3] % 64) >>
         \o Base64EncodeWholeGroups(SubSeq(buf, 4, Len(buf)))

\* buf.toString("base64"): three bytes become four characters, and a last
\* group of one or two bytes is padded with "=".
RECURSIVE Base64Encode(_)
Base64Encode(buf) ==
    IF Len(buf) = 0 THEN <<>>
    ELSE IF Len(buf) = 1
         THEN << Base64Char(buf[1] \div 4), Base64Char((buf[1] % 4) * 16),
                 "=", "=" >>
    ELSE IF Len(buf) = 2
         THEN << Base64Char(buf[1] \div 4),
                 Base64Char((buf[1] % 4) * 16 + buf[2] \div 16),
                 Base64Char((buf[2] % 16) * 4), "=" >>
    ELSE << Base64Char(buf[1] \div 4),
            Base64Char((buf[1] % 4) * 16 + buf[2] \div 16),
            Base64Char((buf[2] % 16) * 4 + buf[3] \div 64),
            Base64Char(buf[3] % 64) >>
         \o Base64Encode(SubSeq(buf, 4, Len(buf)))

\* fs.promises.readFile(filePath)
ReadFile(f, filePath) ==
    IF ~Exists(f, filePath) THEN [error |-> "ENOENT", buf |-> <<>>]
    ELSE IF f[filePath].kind # "file" THEN [error |-> "EISDIR", buf |-> <<>>]
    ELSE [error |-> "", buf |-> f[filePath].bytes]

\* Mutant: the header check on the first byte only.
readFileBase64FirstByteOnly(f, filePath) ==
    LET r == ReadFile(f, filePath)
    IN  IF r.error # "" THEN [type |-> "object", error |-> r.error]
        ELSE IF Len(r.buf) < 1 \/ r.buf[1] # 255
             THEN [type |-> "object", error |-> "not a valid JPEG"]
        ELSE [type |-> "string", value |-> Base64Encode(r.buf)]

\* The value readFileBase64 resolves to: a base64 string, or {error}.
readFileBase64(f, filePath) ==
    LET r == ReadFile(f, filePath)
    IN  IF r.error # "" THEN [type |-> "object", error |-> r.error]
        ELSE IF Len(r.buf) < 2 \/ r.buf[1] # 255 \/ r.buf[2] # 216
             THEN [type |-> "object", error |-> "not a valid JPEG"]
        ELSE [type |-> "string", value |-> Base64Encode(r.buf)]

\* Mutant: a header buffer that is not zero-filled and holds 0xFF 0xD8 from
\* an earlier use where the file has no byte.
ReadHeaderPrefilled(bytes) ==
    [k \in 1..2 |-> IF k <= Len(bytes) THEN bytes[k]
                    ELSE IF k = 1 THEN 255 ELSE 216]

\* fd.read(header, 0, 2, 0) into Buffer.alloc(2): the first two bytes of the
\* file, with 0 where the file has no byte.
ReadHeader(bytes) == [k \in 1..2 |-> IF k <= Len(bytes) THEN bytes[k] ELSE 0]

\* The error of fs.promises.open(filePath, "r") followed by fd.read: a
\* directory can be opened and fails at the read.
OpenReadError(f, filePath) ==
    IF ~Exists(f, filePath) THEN "ENOENT"
    ELSE IF f[filePath].kind # "file" THEN "EISDIR"
    ELSE ""

\* Mutant: the header check with && in place of ||.
validateJpegBothBytesWrong(f, filePath) ==
    IF OpenReadError(f, filePath) # ""
    THEN [valid |-> FALSE, error |-> OpenReadError(f, filePath)]
    ELSE LET header == ReadHeader(f[filePath].bytes)
         IN  IF header[1] # 255 /\ header[2] # 216
             THEN [valid |-> FALSE, error |-> "not a valid JPEG"]
             ELSE [valid |-> TRUE]

validateJpeg(f, filePath) ==
    IF OpenReadError(f, filePath) # ""
    THEN [valid |-> FALSE, error |-> OpenReadError(f, filePath)]
    ELSE LET header == ReadHeader(f[filePath].bytes)
         IN  IF header[1] # 255 \/ header[2] # 216
             THEN [valid |-> FALSE, error |-> "not a valid JPEG"]
             ELSE [valid |-> TRUE]

\* ----------------------------------------------------------- estimateScanTime

\* Math.round(num / den) for num >= 0 and den > 0: halves round up.
MathRound(num, den) == (2 * num + den) \div (2 * den)

\* Mutant: the first comparison with <= in place of <.
estimateScanTimeInclusive(remainingFiles, avgMsPerFile) ==
    LET estimatedMs == remainingFiles * avgMsPerFile
    IN  [estimatedMs |-> estimatedMs,
         formatted |->
            IF estimatedMs = 0 THEN "< 10 sec"
            ELSE IF estimatedMs <= 10000 THEN "< 10 sec"
            ELSE IF estimatedMs < 45000 THEN "~30 sec"
            ELSE IF estimatedMs < 90000 THEN "~1 min"
            ELSE "~" \o ToString(MathRound(estimatedMs, 60000)) \o " min"]

estimateScanTime(remainingFiles, avgMsPerFile) ==
    LET estimatedMs == remainingFiles * avgMsPerFile
    IN  [estimatedMs |-> estimatedMs,
         formatted |->
            IF estimatedMs = 0 THEN "< 10 sec"
            ELSE IF estimatedMs < 10000 THEN "< 10 sec"
            ELSE IF estimatedMs < 45000 THEN "~30 sec"
            ELSE IF estimatedMs < 90000 THEN "~1 min"
            ELSE "~" \o ToString(MathRound(estimatedMs, 60000)) \o " min"]

\* -------------------------------------------------------------- moveToReview

Undefined == {}
Some(v) == {v}
ValueOf(opt) == CHOOSE v \in opt : TRUE
\* JavaScript truthiness of an optional string: undefined and "" are falsy.
Truthy(opt) == opt # {} /\ opt # {<<>>}

\* fs.existsSync(p)
existsSync(f, p) == Exists(f, p)

\* fs.mkdirSync(p, {recursive: true}): creates p and its missing parents, and
\* fails (creating nothing) when a component of p exists and is no directory.
mkdirSync(f, p) ==
    LET chain == { SubSeq(p, 1, k) : k \in 1..Len(p) }
    IN  IF \E q \in chain : Exists(f, q) /\ ~IsDir(f, q)
        THEN [error |-> "ENOTDIR", fs |-> f]
        ELSE [error |-> "",
              fs |-> [q \in DOMAIN f \cup chain |->
                        IF q \in DOMAIN f THEN f[q] ELSE DirNode]]

\* The error of rename(2) for oldPath -> newPath, "" when it succeeds.
RenameError(f, oldPath, newPath) ==
    IF ~Exists(f, oldPath) THEN "ENOENT"
    ELSE IF ~Exists(f, Parent(newPath)) THEN "ENOENT"
    ELSE IF ~IsDir(f, Parent(newPath)) THEN "ENOTDIR"
    ELSE IF oldPath = newPath THEN ""
    ELSE IF f[oldPath].kind = "dir"
         THEN IF IsPrefix(oldPath, newPath) THEN "EINVAL"
              ELSE IF Exists(f, newPath) /\ ~IsDir(f, newPath) THEN "ENOTDIR"
              ELSE IF \E q \in DOMAIN f : q # newPath /\ IsPrefix(newPath, q)
                   THEN "ENOTEMPTY"
              ELSE ""
    ELSE IF IsDir(f, newPath) THEN "EISDIR"
    ELSE ""

\* The file system after a successful rename: the entry at oldPath (with
\* everything below it) now lives at newPath and replaces what was there.
Renamed(f, oldPath, newPath) ==
    LET moved == { q \in DOMAIN f : IsPrefix(oldPath, q) }
        target(q) == newPath \o SubSeq(q, Len(oldPath) + 1, Len(q))
        kept == { q \in DOMAIN f : ~IsPrefix(oldPath, q) /\ ~IsPrefix(newPath, q) }
        arrived == { target(q) : q \in moved }
    IN  [q \in kept \cup arrived |->
            IF q \in arrived
            THEN f[oldPath \o SubSeq(q, Len(newPath) + 1, Len(q))]
            ELSE f[q]]

\* Mutant: a move done as copy and unlink, where the unlink of the source
\* also happens after a copy that failed.
renameSyncUnlinkAlways(f, oldPath, newPath) ==
    LET err == RenameError(f, oldPath, newPath)
    IN  [error |-> err,
         fs |-> IF err = "" /\ oldPath # newPath
                THEN Renamed(f, oldPath, newPath)
                ELSE IF err # "" /\ IsFile(f, oldPath)
                     THEN [q \in DOMAIN f \ {oldPath} |-> f[q]]
                ELSE f]

\* fs.renameSync(oldPath, newPath)
renameSync(f, oldPath, newPath) ==
    LET err == RenameError(f, oldPath, newPath)
    IN  [error |-> err,
         fs |-> IF err = "" /\ oldPath # newPath
                THEN Renamed(f, oldPath, newPath) ELSE f]

\* Mutant: the review folder of the source folder wins over destFolder.
ReviewDirOfSourceFirst(sourceFolder, reviewFolderName, destFolder) ==
    IF sourceFolder # Undefined
    THEN [threw |-> FALSE,
          dir |-> Join(ValueOf(sourceFolder),
                       IF Truthy(reviewFolderName) THEN ValueOf(reviewFolderName)
                       ELSE n_review_blurry)]
    ELSE IF Truthy(destFolder) THEN [threw |-> FALSE, dir |-> ValueOf(destFolder)]
    ELSE [threw |-> TRUE, dir |-> <<>>]

\* const reviewDir = destFolder || path.join(sourceFolder, reviewFolderName || "review_blurry")
\* path.join throws a TypeError when sourceFolder is undefined.
ReviewDirOf(sourceFolder, reviewFolderName, destFolder) ==
    IF Truthy(destFolder) THEN [threw |-> FALSE, dir |-> ValueOf(destFolder)]
    ELSE IF sourceFolder = Undefined THEN [threw |-> TRUE, dir |-> <<>>]
    ELSE [threw |-> FALSE,
          dir |-> Join(ValueOf(sourceFolder),
                       IF Truthy(reviewFolderName) THEN ValueOf(reviewFolderName)
                       ELSE n_review_blurry)]

\* The result entry of one file of the loop.
MoveEntry(filePath, err) ==
    IF err = "" THEN [file |-> Basename(filePath), success |-> TRUE]
    ELSE [file |-> Basename(filePath), success |-> FALSE, error |-> err]

\* Mutant: the loop with the try/catch around the whole loop, so that the
\* first failed rename ends it.
RECURSIVE MoveFilesUntilFailure(_, _, _)
MoveFilesUntilFailure(f, reviewDir, files) ==
    IF files = <<>> THEN [fs |-> f, results |-> <<>>]
    ELSE LET filePath == Head(files)
             dest == Join(reviewDir, Basename(filePath))
             r == renameSync(f, filePath, dest)
             rest == MoveFilesUntilFailure(r.fs, reviewDir, Tail(files))
         IN  IF r.error # ""
             THEN [fs |-> f, results |-> <<MoveEntry(filePath, r.error)>>]
             ELSE [fs |-> rest.fs,
                   results |-> <<MoveEntry(filePath, r.error)>> \o rest.results]

\* The for-loop of moveToReview over the files still to be moved.
RECURSIVE MoveFiles(_, _, _)
MoveFiles(f, reviewDir, files) ==
    IF files = <<>> THEN [fs |-> f, results |-> <<>>]
    ELSE LET filePath == Head(files)
             dest == Join(reviewDir, Basename(filePath))
             r == renameSync(f, filePath, dest)
             rest == MoveFiles(r.fs, reviewDir, Tail(files))
         IN  [fs |-> rest.fs,
              results |-> <<MoveEntry(filePath, r.error)>> \o rest.results]

\* Mutant: moveToReview without the mkdirSync of a missing review folder.
moveToReviewNoMkdir(f, files, sourceFolder, reviewFolderName, destFolder) ==
    LET rd == ReviewDirOf(sourceFolder, reviewFolderName, destFolder)
        moved == MoveFiles(f, rd.dir, files)
    IN  IF rd.threw THEN [threw |-> TRUE, fs |-> f]
        ELSE [threw |-> FALSE, fs |-> moved.fs,
              reviewDir |-> rd.dir, results |-> moved.results]

moveToReview(f, files, sourceFolder, reviewFolderName, destFolder) ==
    LET rd == ReviewDirOf(sourceFolder, reviewFolderName, destFolder)
        made == IF existsSync(f, rd.dir) THEN [error |-> "", fs |-> f]
                ELSE mkdirSync(f, rd.dir)
        moved == MoveFiles(made.fs, rd.dir, files)
    IN  IF rd.threw THEN [threw |-> TRUE, fs |-> f]
        ELSE IF made.error # "" THEN [threw |-> TRUE, fs |-> f]
        ELSE [threw |-> FALSE, fs |-> moved.fs,
              reviewDir |-> rd.dir, results |-> moved.results]

\* ---------------------------------------------------------------- behaviour

NoCall == [op |-> "none"]

\* Folders handed to the scan handlers.
ScanFolders == { <<n_A>>, <<n_N>>, <<n_A, n_review_blurry>>, <<n_A, n_a_jpg>> }

ScanJpegs ==
    \E folder \in ScanFolders :
        /\ last' = [op |-> "scanJpegs", folderPath |-> folder,
                    ret |-> scanJpegs(fs, folder)]
        /\ pre' = fs
        /\ UNCHANGED <<fs, fs0, reviewDirs, moves>>

\* The scanJpegs specification: one folder with every kind of entry.
ScanNames ==
    { n_a_jpg, n_a_JPG, n_b_jpeg, n_b_JpEg, n_a_jpe, n_a_jpgg, n_a_jpg2,
      n_a_png, n_hidden_jpg, n_dot_jpg, n_jpg, n_ajpg }

ScanNodes ==
    { FileNode(1, <<255, 216>>, TRUE), FileNode(1, <<>>, TRUE),
      FileNode(1, <<255, 216>>, FALSE), DirNode, SymlinkNode }

InitScan ==
    /\ \E names \in SUBSET ScanNames :
         /\ Cardinality(names) <= MaxEntries
         /\ \E node \in [names -> ScanNodes] :
              fs = [p \in {Root, <<n_A>>} \cup { <<n_A, n>> : n \in names } |->
                      IF Len(p) < 2 THEN DirNode ELSE node[p[2]]]
    /\ fs0 = fs
    /\ pre = fs
    /\ last = NoCall
    /\ reviewDirs = {}
    /\ moves = 0

\* Paths handed to moveToReview in `files`.
MovePaths == { <<n_A, n_a_jpg>>, <<n_B, n_a_jpg>> }

RECURSIVE SeqsUpTo(_, _)
SeqsUpTo(S, n) ==
    IF n = 0 THEN { <<>> }
    ELSE LET shorter == SeqsUpTo(S, n - 1)
         IN  shorter \cup { Append(s, x) : s \in shorter, x \in S }

SourceFolders == { Undefined, Some(<<n_A>>) }
ReviewFolderNames == { Undefined, Some(<<>>), Some(n_my_review) }
DestFolders == { Undefined, Some(<<>>), Some(<<n_R, n_sub>>) }

MoveToReview ==
    \E files \in SeqsUpTo(MovePaths, MaxFiles),
       sourceFolder \in SourceFolders,
       reviewFolderName \in ReviewFolderNames,
       destFolder \in DestFolders :
        LET r == moveToReview(fs, files, sourceFolder, reviewFolderName, destFolder)
        IN  /\ moves < MaxMoves
            /\ moves' = moves + 1
            /\ fs' = r.fs
            /\ pre' = fs
            /\ last' = [op |-> "moveToReview", files |-> files,
                        sourceFolder |-> sourceFolder,
                        reviewFolderName |-> reviewFolderName,
                        destFolder |-> destFolder,
                        ret |-> [k \in DOMAIN r \ {"fs"} |-> r[k]]]
            /\ reviewDirs' = IF r.threw THEN reviewDirs
                             ELSE reviewDirs \cup {r.reviewDir}
            /\ UNCHANGED fs0

Photo(i) == FileNode(i, <<255, 216>>, TRUE)

\* The file systems a behaviour starts from. Folder A holds the photos a.jpg
\* and b.jpg and a directory named b.jpeg; folder B may hold a photo a.jpg
\* too; the review folder of A may exist, and may already hold a photo
\* a.jpg, or be a regular file; the output folder R/sub may exist, and then
\* holds a directory named a.jpg, or R may be a regular file.
InitialTrees ==
    [ b : {"absent", "file"}, review : {"absent", "dir", "full", "file"},
      out : {"absent", "full", "file"} ]

TreeOf(t) ==
    LET always == { Root, <<n_A>>, <<n_B>>, <<n_A, n_a_jpg>>, <<n_A, n_b_jpg>>,
                    <<n_A, n_b_jpeg>> }
        b == IF t.b = "file" THEN { <<n_B, n_a_jpg>> } ELSE {}
        review == IF t.review = "absent" THEN {}
                  ELSE IF t.review = "dir" THEN { <<n_A, n_review_blurry>> }
                  ELSE { <<n_A, n_review_blurry>>,
                         <<n_A, n_review_blurry, n_a_jpg>> }
        out == IF t.out = "absent" THEN {}
               ELSE IF t.out = "file" THEN { <<n_R>> }
               ELSE { <<n_R>>, <<n_R, n_sub>>, <<n_R, n_sub, n_a_jpg>> }
    IN  [p \in always \cup b \cup review \cup out |->
            IF p = <<n_A, n_a_jpg>> THEN Photo(1)
            ELSE IF p = <<n_B, n_a_jpg>> THEN Photo(2)
            ELSE IF p = <<n_A, n_b_jpg>> THEN Photo(3)
            ELSE IF p = <<n_A, n_review_blurry, n_a_jpg>> THEN Photo(4)
            ELSE IF p = <<n_A, n_review_blurry>> /\ t.review = "file"
                 THEN FileNode(5, <<0>>, TRUE)
            ELSE IF p = <<n_R>> /\ t.out = "file" THEN FileNode(6, <<0>>, TRUE)
            ELSE DirNode]

Init ==
    /\ \E t \in InitialTrees : fs = TreeOf(t)
    /\ fs0 = fs
    /\ pre = fs
    /\ last = NoCall
    /\ reviewDirs = {}
    /\ moves = 0

Next == ScanJpegs \/ MoveToReview

Spec == Init /\ [][Next]_vars

NextScan == ScanJpegs

SpecScan == InitScan /\ [][NextScan]_vars

\* The scan, move, scan again specification: a folder is scanned, some of
\* the scanned photos are handed to moveToReview with the scanned folder as
\* sourceFolder and nothing else, and folders are scanned again. The call
\* record of the move keeps the scan result the files were picked from.
Picks(items) ==
    { s \in SeqsUpTo({ items[k].path : k \in 1..Len(items) }, MaxFiles) :
         \A i, j \in 1..Len(s) : s[i] = s[j] => i = j }

MoveScannedToReview ==
    /\ moves < MaxMoves
    /\ last.op = "scanJpegs"
    /\ last.ret.kind = "array"
    /\ \E files \in Picks(last.ret.items) :
         LET r == moveToReview(fs, files, Some(last.folderPath), Undefined,
                               Undefined)
         IN  /\ moves' = moves + 1
             /\ fs' = r.fs
             /\ pre' = fs
             /\ last' = [op |-> "moveToReview", files |-> files,
                         sourceFolder |-> Some(last.folderPath),
                         reviewFolderName |-> Undefined,
                         destFolder |-> Undefined,
                         scanned |-> last.ret.items,
                         ret |-> [k \in DOMAIN r \ {"fs"} |-> r[k]]]
             /\ reviewDirs' = IF r.threw THEN reviewDirs
                              ELSE reviewDirs \cup {r.reviewDir}
             /\ UNCHANGED fs0

NextRescan == ScanJpegs \/ MoveScannedToReview

SpecRescan == Init /\ [][NextRescan]_vars

\* The scanMultipleFolders specification: folders A and B, each with or
\* without a.jpg and b.jpg (as a photo or as a 0-byte file), and the missing
\* folder N.
MultiFolders == { <<n_A>>, <<n_B>>, <<n_N>> }

ScanMultipleFolders ==
    \E folders \in SeqsUpTo(MultiFolders, MaxFolders) :
        /\ last' = [op |-> "scanMultipleFolders", folderPaths |-> folders,
                    ret |-> scanMultipleFolders(fs, folders)]
        /\ pre' = fs
        /\ UNCHANGED <<fs, fs0, reviewDirs, moves>>

MultiSlots ==
    { <<n_A, n_a_jpg>>, <<n_A, n_b_jpg>>, <<n_B, n_a_jpg>>, <<n_B, n_b_jpg>> }

InitFolders ==
    /\ \E t \in [MultiSlots -> {"absent", "photo", "empty"}] :
         fs = [p \in {Root, <<n_A>>, <<n_B>>}
                       \cup { q \in MultiSlots : t[q] # "absent" } |->
                 IF Len(p) < 2 THEN DirNode
                 ELSE IF t[p] = "photo" THEN Photo(1)
                 ELSE FileNode(1, <<>>, TRUE)]
    /\ fs0 = fs
    /\ pre = fs
    /\ last = NoCall
    /\ reviewDirs = {}
    /\ moves = 0

NextFolders == ScanMultipleFolders

SpecFolders == InitFolders /\ [][NextFolders]_vars

\* The readFileBase64 / validateJpeg specification: one path that is
\* missing, a directory, or a file of up to MaxBytes bytes.
ByteValues == { 0, 137, 216, 255 }

ReadPath == <<n_A, n_a_jpg>>

ReadFileBase64 ==
    /\ last' = [op |-> "readFileBase64", filePath |-> ReadPath,
                ret |-> readFileBase64(fs, ReadPath)]
    /\ pre' = fs
    /\ UNCHANGED <<fs, fs0, reviewDirs, moves>>

ValidateJpeg ==
    /\ last' = [op |-> "validateJpeg", filePath |-> ReadPath,
                ret |-> validateJpeg(fs, ReadPath)]
    /\ pre' = fs
    /\ UNCHANGED <<fs, fs0, reviewDirs, moves>>

InitRead ==
    /\ \E node \in { DirNode }
                   \cup { FileNode(1, b, TRUE) : b \in SeqsUpTo(ByteValues, MaxBytes) } :
         \E present \in BOOLEAN :
            fs = [p \in {Root, <<n_A>>} \cup (IF present THEN {ReadPath} ELSE {}) |->
                    IF p = ReadPath THEN node ELSE DirNode]
    /\ fs0 = fs
    /\ pre = fs
    /\ last = NoCall
    /\ reviewDirs = {}
    /\ moves = 0

NextRead == ReadFileBase64 \/ ValidateJpeg

SpecRead == InitRead /\ [][NextRead]_vars

\* The estimateScanTime specification.
AvgMsPerFile ==
    { 0, 1, 500, 833, 1000, 7500, 9999, 10000, 12500, 30000, 44999, 45000,
      89999, 90000 }

EstimateScanTime ==
    \E remainingFiles \in 0..MaxRemaining, avgMsPerFile \in AvgMsPerFile :
        /\ last' = [op |-> "estimateScanTime", remainingFiles |-> remainingFiles,
                    avgMsPerFile |-> avgMsPerFile,
                    ret |-> estimateScanTime(remainingFiles, avgMsPerFile)]
        /\ UNCHANGED <<fs, fs0, pre, reviewDirs, moves>>

InitTime ==
    /\ fs = [p \in {Root} |-> DirNode]
    /\ fs0 = fs
    /\ pre = fs
    /\ last = NoCall
    /\ reviewDirs = {}
    /\ moves = 0

NextTime == EstimateScanTime

SpecTime == InitTime /\ [][NextTime]_vars

\* ---------------------------------------------------------- sharpness scorer
\* The scorer of the specification (sections 3 to 7). A score and a variance
\* are fractions [num, den] of integers; an intensity is an integer.

\* ScoringConfig: the default threshold, and the fixed design constants: the
\* band ratios 0.8 and 1.2, the center-crop fraction 1/2 and the blend
\* weights 0.3 (full frame) and 0.7 (center).
DefaultThreshold == 100
LowRatioNum == 8
HighRatioNum == 12
RatioDen == 10
CenterCropNum == 1
CenterCropDen == 2
WFull == 3
WCenter == 7

Abs(n) == IF n < 0 THEN 0 - n ELSE n

\* Mutant: a validation that does not look at the height and accepts a
\* pixel buffer that is longer than the image.
InvalidImageLenient(image) ==
    \/ image.width <= 0
    \/ Len(image.pixels) < image.width * image.height * image.channels

\* 4.1: the condition under which the scorer fails with InvalidImageError.
InvalidImage(image) ==
    \/ image.width <= 0
    \/ image.height <= 0
    \/ Len(image.pixels) # image.width * image.height * image.channels

\* 4.1: gray = 0.299*R + 0.587*G + 0.114*B, rounded to an integer intensity.
Luma(r, g, b) == (299 * r + 587 * g + 114 * b + 500) \div 1000

\* 4.1: the single-channel intensity buffer of a valid image: unchanged for
\* one channel, the luma of the first three channels otherwise.
Grayscale(image) ==
    [k \in 1..(image.width * image.height) |->
        IF image.channels = 1 THEN image.pixels[k]
        ELSE LET at == (k - 1) * image.channels
             IN  Luma(image.pixels[at + 1], image.pixels[at + 2],
                      image.pixels[at + 3])]

\* I(x, y) of a row-major W x H buffer, and 0 outside of it.
IntensityAt(gray, W, H, x, y) ==
    IF x >= 0 /\ x < W /\ y >= 0 /\ y < H THEN gray[y * W + x + 1] ELSE 0

\* 4.2: R(x,y) = |4*I(x,y) - I(x-1,y) - I(x+1,y) - I(x,y-1) - I(x,y+1)|
Response(gray, W, H, x, y) ==
    Abs(4 * IntensityAt(gray, W, H, x, y)
        - IntensityAt(gray, W, H, x - 1, y) - IntensityAt(gray, W, H, x + 1, y)
        - IntensityAt(gray, W, H, x, y - 1) - IntensityAt(gray, W, H, x, y + 1))

\* Mutant: a response buffer that keeps the border pixels, with the
\* intensity outside of the image read as 0.
WholeFrame(W, H) == [x0 |-> 0, x1 |-> W - 1, y0 |-> 0, y1 |-> H - 1]

\* 4.2: the interior of the frame: every pixel but the 1-pixel border. It is
\* empty (x1 < x0 or y1 < y0) when W < 3 or H < 3.
Interior(W, H) == [x0 |-> 1, x1 |-> W - 2, y0 |-> 1, y1 |-> H - 2]

Max(a, b) == IF a >= b THEN a ELSE b
Min(a, b) == IF a <= b THEN a ELSE b

\* 4.3: the centered rectangle covering the center-crop fraction of width
\* and height, at least 1 x 1, clipped to the interior.
CenterRegion(W, H) ==
    LET cw == Max(1, (W * CenterCropNum) \div CenterCropDen)
        ch == Max(1, (H * CenterCropNum) \div CenterCropDen)
        left == (W - cw) \div 2
        top == (H - ch) \div 2
        inside == Interior(W, H)
    IN  [x0 |-> Max(left, inside.x0), x1 |-> Min(left + cw - 1, inside.x1),
         y0 |-> Max(top, inside.y0), y1 |-> Min(top + ch - 1, inside.y1)]

\* The Laplacian response values within a region, row by row.
ResponsesIn(gray, W, H, region) ==
    LET w == Max(0, region.x1 - region.x0 + 1)
        h == Max(0, region.y1 - region.y0 + 1)
    IN  [k \in 1..(w * h) |->
            Response(gray, W, H, region.x0 + ((k - 1) % w),
                     region.y0 + ((k - 1) \div w))]

RECURSIVE SumOf(_)
SumOf(values) ==
    IF values = <<>> THEN 0 ELSE Head(values) + SumOf(Tail(values))

SumOfSquares(values) == SumOf([k \in 1..Len(values) |-> values[k] * values[k]])

\* 4.3: the population variance of the values, 0 for no values.
RegionVariance(values) ==
    LET n == Len(values)
    IN  IF n = 0 THEN [num |-> 0, den |-> 1]
        ELSE [num |-> n * SumOfSquares(values) - SumOf(values) * SumOf(values),
              den |-> n * n]

\* 4.4: score = w_full * fullFrameVariance + w_center * centerVariance
CompositeScore(fullFrameVariance, centerVariance) ==
    [num |-> WFull * fullFrameVariance.num * centerVariance.den
             + WCenter * centerVariance.num * fullFrameVariance.den,
     den |-> (WFull + WCenter) * fullFrameVariance.den * centerVariance.den]

\* score < T * ratio, for the ratio ratioNum / RatioDen.
BelowRatio(score, T, ratioNum) ==
    score.num * RatioDen < T * ratioNum * score.den

\* Mutant: bands whose lower limits belong to the band below.
BandsInclusive(score, T) ==
    { b \in {"blurry", "borderline", "sharp"} :
        \/ b = "blurry" /\ score.num * RatioDen <= T * LowRatioNum * score.den
        \/ b = "borderline" /\ ~BelowRatio(score, T, LowRatioNum)
                            /\ score.num * RatioDen <= T * HighRatioNum * score.den
        \/ b = "sharp" /\ ~BelowRatio(score, T, HighRatioNum) }

\* 4.5: the bands whose rule holds for the score and the threshold T.
Bands(score, T) ==
    { b \in {"blurry", "borderline", "sharp"} :
        \/ b = "blurry" /\ BelowRatio(score, T, LowRatioNum)
        \/ b = "borderline" /\ ~BelowRatio(score, T, LowRatioNum)
                            /\ BelowRatio(score, T, HighRatioNum)
        \/ b = "sharp" /\ ~BelowRatio(score, T, HighRatioNum) }

\* 4.5: the band of the score, where the rules name one.
Classify(score, T) ==
    IF Cardinality(Bands(score, T)) = 1
    THEN CHOOSE b \in Bands(score, T) : TRUE
    ELSE "none"

\* 6: score(image, config) -> ScoreResult | InvalidImageError
score(image, config) ==
    IF InvalidImage(image) THEN [error |-> "InvalidImageError"]
    ELSE LET W == image.width
             H == image.height
             gray == Grayscale(image)
             fullFrameVariance ==
                 RegionVariance(ResponsesIn(gray, W, H, Interior(W, H)))
             centerVariance ==
                 RegionVariance(ResponsesIn(gray, W, H, CenterRegion(W, H)))
             composite == CompositeScore(fullFrameVariance, centerVariance)
         IN  [score |-> composite,
              band |-> Classify(composite, config.threshold),
              fullFrameVariance |-> fullFrameVariance,
              centerVariance |-> centerVariance]

\* The scorer specification: score is called with images of width -1 to
\* MaxWidth and height -1 to MaxHeight, of 1, 3 or 4 channels, with a pixel
\* buffer of any length up to one more than the largest image needs, filled
\* with one intensity or with stripes; the classification is called with
\* scores n and n/10 and thresholds up to MaxThreshold, and with the default
\* threshold and the scores 50, 100 and 200.
MaxBuffer == MaxWidth * MaxHeight * 4 + 1

Patterns ==
    { [kind |-> "uniform", value |-> 0, period |-> 1],
      [kind |-> "uniform", value |-> 50, period |-> 1],
      [kind |-> "stripes", value |-> 50, period |-> 2],
      [kind |-> "stripes", value |-> 50, period |-> 3],
      [kind |-> "stripes", value |-> 50, period |-> 5] }

PixelsOf(pattern, length) ==
    [k \in 1..length |-> IF k % pattern.period = 0 THEN pattern.value ELSE 0]

ImageInputs ==
    { [width |-> width, height |-> height, channels |-> channels,
       pixels |-> PixelsOf(pattern, length)] :
         width \in (0 - 1)..MaxWidth, height \in (0 - 1)..MaxHeight,
         channels \in {1, 3, 4}, length \in 0..MaxBuffer, pattern \in Patterns }

ConfigInputs == { [threshold |-> T] : T \in {1, DefaultThreshold} }

ScoreInputs ==
    { [num |-> n, den |-> d] : n \in 0..MaxScore \cup {50, 100, 200},
                               d \in {1, RatioDen} }

ThresholdInputs == 1..MaxThreshold \cup {DefaultThreshold}

\* The calls return: a behaviour starts with a call that has been made and
\* has not returned yet.
Score ==
    /\ last.op = "call" /\ last.fn = "score"
    /\ last' = [op |-> "score", image |-> last.image, config |-> last.config,
                ret |-> score(last.image, last.config)]
    /\ UNCHANGED <<fs, fs0, pre, reviewDirs, moves>>

ClassifyScore ==
    /\ last.op = "call" /\ last.fn = "classify"
    /\ last' = [op |-> "classify", score |-> last.score,
                threshold |-> last.threshold,
                ret |-> Classify(last.score, last.threshold)]
    /\ UNCHANGED <<fs, fs0, pre, reviewDirs, moves>>

InitScore ==
    /\ fs = [p \in {Root} |-> DirNode]
    /\ fs0 = fs
    /\ pre = fs
    /\ \/ \E image \in ImageInputs, config \in ConfigInputs :
             last = [op |-> "call", fn |-> "score", image |-> image,
                     config |-> config]
       \/ \E s \in ScoreInputs, T \in ThresholdInputs :
             last = [op |-> "call", fn |-> "classify", score |-> s,
                     threshold |-> T]
    /\ reviewDirs = {}
    /\ moves = 0

NextScore == Score \/ ClassifyScore

SpecScore == InitScore /\ [][NextScore]_vars

\* ------------------------------------------------------------------- claims

HasProperty(obj, key) == key \in DOMAIN obj

ToLowerCase(c) ==
    CASE c = "A" -> "a" [] c = "B" -> "b" [] c = "E" -> "e" [] c = "G" -> "g"
      [] c = "J" -> "j" [] c = "N" -> "n" [] c = "P" -> "p" [] c = "R" -> "r"
      [] OTHER -> c

EndsWithIgnoreCase(name, suffix) ==
    /\ Len(name) >= Len(suffix)
    /\ \A k \in 1..Len(suffix) :
          ToLowerCase(name[Len(name) - Len(suffix) + k]) = suffix[k]

\* The entries of a folder: the paths directly below it.
EntriesOf(f, folder) ==
    { p \in DOMAIN f : Len(p) = Len(folder) + 1 /\ Parent(p) = folder }

\* What the claim C2 asks of a directory entry for it to be listed.
Listed(f, p) ==
    /\ f[p].kind = "file"
    /\ \/ EndsWithIgnoreCase(Basename(p), <<".", "j", "p", "g">>)
       \/ EndsWithIgnoreCase(Basename(p), <<".", "j", "p", "e", "g">>)
    /\ Basename(p)[1] # "."
    /\ f[p].statOk
    /\ Len(f[p].bytes) > 0

\* C2: for a readable folder scanJpegs returns exactly one {name, path} entry
\* for each directory entry that is a regular file named *.jpg or *.jpeg
\* (whatever the case), not hidden, whose stat succeeds with size > 0, with
\* path = folder joined with name; every other entry is skipped and the
\* entries after it are still scanned.
C2_ScanJpegsListsExactlyTheJpegs ==
    (last.op = "scanJpegs" /\ IsDir(pre, last.folderPath)) =>
        /\ last.ret.kind = "array"
        /\ \A i \in 1..Len(last.ret.items) :
              /\ DOMAIN last.ret.items[i] = {"name", "path"}
              /\ last.ret.items[i].path =
                     Join(last.folderPath, last.ret.items[i].name)
              /\ last.ret.items[i].path \in EntriesOf(pre, last.folderPath)
        /\ \A p \in EntriesOf(pre, last.folderPath) :
              Cardinality({ i \in 1..Len(last.ret.items) :
                              last.ret.items[i].path = p })
                = IF Listed(pre, p) THEN 1 ELSE 0

\* A scan that skipped a JPEG whose stat failed and still listed the
\* mixed-case .JpEg file after it.
C2_Witness ==
    /\ last.op = "scanJpegs"
    /\ last.folderPath = <<n_A>>
    /\ IsFile(pre, <<n_A, n_a_jpg>>)
    /\ ~pre[<<n_A, n_a_jpg>>].statOk
    /\ last.ret.kind = "array"
    /\ last.ret.items = << [name |-> n_b_JpEg, path |-> <<n_A, n_b_JpEg>>] >>

\* C8: scanJpegs never throws: for a folder that cannot be read it returns
\* an object with an error property and no file list, and for a readable
\* folder an array, which is empty for an empty directory.
C8_ScanJpegsNeverThrows ==
    last.op = "scanJpegs" =>
        IF IsDir(pre, last.folderPath)
        THEN /\ last.ret.kind = "array"
             /\ EntriesOf(pre, last.folderPath) = {} => last.ret.items = <<>>
        ELSE /\ last.ret.kind = "error"
             /\ HasProperty(last.ret, "error")
             /\ last.ret.error # ""
             /\ ~HasProperty(last.ret, "items")

\* A scan of a folder that does not exist, answered with an error object.
C8_Witness ==
    /\ last.op = "scanJpegs"
    /\ ~Exists(pre, last.folderPath)
    /\ last.ret.kind = "error"
    /\ last.ret.error = "ENOENT"

\* A scan of an existing, empty directory, answered with the empty array.
C8_WitnessEmpty ==
    /\ last.op = "scanJpegs"
    /\ IsDir(pre, last.folderPath)
    /\ EntriesOf(pre, last.folderPath) = {}
    /\ last.ret = [kind |-> "array", items |-> <<>>]

Returned == last.op = "moveToReview" /\ ~last.ret.threw

\* C1: photos are moved, not deleted: whatever moveToReview calls were made,
\* every photo the file system held at the start still exists unchanged, at
\* its original path or in a review directory under its base name.
C1_PhotosMovedNotDeleted ==
    \A p \in DOMAIN fs0 :
        fs0[p].kind = "file" =>
            \/ Exists(fs, p) /\ fs[p] = fs0[p]
            \/ \E d \in reviewDirs :
                 /\ Exists(fs, Join(d, Basename(p)))
                 /\ fs[Join(d, Basename(p))] = fs0[p]

\* The file system after the first k renames of the last moveToReview call,
\* replayed from the state in which its review directory has been made.
RECURSIVE FsAfter(_)
FsAfter(k) ==
    IF k = 0
    THEN IF Exists(pre, last.ret.reviewDir) THEN pre
         ELSE mkdirSync(pre, last.ret.reviewDir).fs
    ELSE renameSync(FsAfter(k - 1), last.files[k],
                    Join(last.ret.reviewDir, Basename(last.files[k]))).fs

RenameSucceeds(k) ==
    RenameError(FsAfter(k - 1), last.files[k],
                Join(last.ret.reviewDir, Basename(last.files[k]))) = ""

\* C3: moveToReview returns one result per input path, in input order, each
\* with the path's base name; success is true exactly when that rename
\* succeeded, and a failed entry carries an error message; a failure does not
\* keep the later files from being moved and reported.
C3_OneResultPerFileInOrder ==
    Returned =>
        /\ Len(last.ret.results) = Len(last.files)
        /\ \A k \in 1..Len(last.files) :
              LET e == last.ret.results[k]
              IN  /\ e.file = Basename(last.files[k])
                  /\ e.success = RenameSucceeds(k)
                  /\ e.success => ~HasProperty(e, "error")
                  /\ ~e.success => HasProperty(e, "error") /\ e.error # ""
        /\ fs = FsAfter(Len(last.files))

\* A call whose first file is missing and whose second file was moved.
C3_Witness ==
    /\ Returned
    /\ last.files = << <<n_B, n_a_jpg>>, <<n_A, n_a_jpg>> >>
    /\ Len(last.ret.results) = 2
    /\ ~last.ret.results[1].success
    /\ last.ret.results[2].success
    /\ ~Exists(fs, <<n_A, n_a_jpg>>)
    /\ IsFile(fs, Join(last.ret.reviewDir, n_a_jpg))

\* An argument counts as provided when it is a non-empty string (undefined
\* and "" are what the || of the code passes over).
Provided(opt) == opt # Undefined /\ ValueOf(opt) # <<>>

\* C4: the reviewDir that moveToReview returns and moves into is destFolder
\* whenever destFolder is provided, whatever sourceFolder and
\* reviewFolderName are; otherwise it is sourceFolder joined with
\* reviewFolderName, and with "review_blurry" when that is not provided.
C4_ReviewDirChoice ==
    Returned =>
        /\ last.ret.reviewDir =
             IF Provided(last.destFolder) THEN ValueOf(last.destFolder)
             ELSE IF Provided(last.reviewFolderName)
                  THEN Join(ValueOf(last.sourceFolder),
                            ValueOf(last.reviewFolderName))
             ELSE Join(ValueOf(last.sourceFolder), n_review_blurry)
        /\ \A k \in 1..Len(last.ret.results) :
              last.ret.results[k].success =>
                  Exists(fs, Join(last.ret.reviewDir, last.ret.results[k].file))

\* A call with destFolder, a sourceFolder and a reviewFolderName that moved a
\* file into destFolder.
C4_Witness ==
    /\ Returned
    /\ last.destFolder = Some(<<n_R, n_sub>>)
    /\ last.sourceFolder = Some(<<n_A>>)
    /\ last.reviewFolderName = Some(n_my_review)
    /\ last.ret.reviewDir = <<n_R, n_sub>>
    /\ IsFile(fs, <<n_R, n_sub, n_a_jpg>>)
    /\ ~Exists(fs, <<n_A, n_my_review>>)

\* A call without destFolder and reviewFolderName that moved a file into
\* sourceFolder/review_blurry.
C4_WitnessDefault ==
    /\ Returned
    /\ ~Provided(last.destFolder)
    /\ ~Provided(last.reviewFolderName)
    /\ last.ret.reviewDir = <<n_A, n_review_blurry>>
    /\ \E k \in 1..Len(last.ret.results) : last.ret.results[k].success

\* The review directory the arguments of the last call name, if any.
ArgReviewDirs ==
    IF Provided(last.destFolder) THEN { ValueOf(last.destFolder) }
    ELSE IF last.sourceFolder = Undefined THEN {}
    ELSE { Join(ValueOf(last.sourceFolder),
                IF Provided(last.reviewFolderName)
                THEN ValueOf(last.reviewFolderName) ELSE n_review_blurry) }

C10_WitnessExisting ==
    /\ Returned
    /\ IsDir(pre, last.ret.reviewDir)
    /\ \E k \in 1..Len(last.ret.results) : last.ret.results[k].success

\* What the claims C5 and C6 call a file that is no JPEG: fewer than 2 bytes,
\* or first two bytes other than 0xFF 0xD8.
LacksJpegHeader(bytes) == Len(bytes) < 2 \/ SubSeq(bytes, 1, 2) # <<255, 216>>

IsBase64Text(text, byteCount) ==
    /\ Len(text) = 4 * ((byteCount + 2) \div 3)
    /\ \A k \in 1..Len(text) :
          \/ \E x \in 1..Len(Base64Alphabet) : text[k] = Base64Alphabet[x]
          \/ text[k] = "=" /\ k > Len(text) - 2

\* C5: for a readable file readFileBase64 returns {error: "not a valid JPEG"}
\* exactly when the file has fewer than 2 bytes or does not start with
\* 0xFF 0xD8, and a base64 string otherwise (also for the bare 2-byte
\* header); for a path that cannot be read it returns an object with an
\* error property.
C5_ReadFileBase64HeaderCheck ==
    last.op = "readFileBase64" =>
        IF IsFile(pre, last.filePath)
        THEN IF LacksJpegHeader(pre[last.filePath].bytes)
             THEN last.ret = [type |-> "object", error |-> "not a valid JPEG"]
             ELSE /\ last.ret.type = "string"
                  /\ IsBase64Text(last.ret.value, Len(pre[last.filePath].bytes))
        ELSE /\ last.ret.type = "object"
             /\ HasProperty(last.ret, "error")
             /\ last.ret.error \notin {"", "not a valid JPEG"}

\* The 2-byte file FF D8, returned as the base64 string "/9g=".
C5_Witness ==
    /\ last.op = "readFileBase64"
    /\ IsFile(pre, last.filePath)
    /\ pre[last.filePath].bytes = <<255, 216>>
    /\ last.ret = [type |-> "string", value |-> <<"/", "9", "g", "=">>]

\* A file FF 00 .., rejected for its second byte.
C5_WitnessRejected ==
    /\ last.op = "readFileBase64"
    /\ IsFile(pre, last.filePath)
    /\ Len(pre[last.filePath].bytes) = MaxBytes
    /\ SubSeq(pre[last.filePath].bytes, 1, 2) = <<255, 0>>
    /\ last.ret = [type |-> "object", error |-> "not a valid JPEG"]

\* C6: validateJpeg returns exactly {valid: true} if and only if the path can
\* be opened and read and its first two bytes are 0xFF 0xD8; for a file of 0
\* or 1 bytes or with other first bytes it returns {valid: false, error:
\* "not a valid JPEG"}; for a missing file or a directory it returns
\* {valid: false} with an error property; it never throws.
C6_ValidateJpegHeaderCheck ==
    last.op = "validateJpeg" =>
        IF IsFile(pre, last.filePath)
        THEN IF LacksJpegHeader(pre[last.filePath].bytes)
             THEN last.ret = [valid |-> FALSE, error |-> "not a valid JPEG"]
             ELSE last.ret = [valid |-> TRUE]
        ELSE /\ DOMAIN last.ret = {"valid", "error"}
             /\ last.ret.valid = FALSE
             /\ last.ret.error \notin {"", "not a valid JPEG"}

\* The 1-byte file FF, rejected although its only byte is the first byte of
\* the JPEG header.
C6_Witness ==
    /\ last.op = "validateJpeg"
    /\ IsFile(pre, last.filePath)
    /\ pre[last.filePath].bytes = <<255>>
    /\ last.ret = [valid |-> FALSE, error |-> "not a valid JPEG"]

\* A directory, answered with {valid: false, error}.
C6_WitnessDirectory ==
    /\ last.op = "validateJpeg"
    /\ IsDir(pre, last.filePath)
    /\ last.ret = [valid |-> FALSE, error |-> "EISDIR"]

\* What folder k of the last scanMultipleFolders call contributes: the
\* scanJpegs result of the folder, nothing when that is an error.
FolderPart(k) ==
    LET r == scanJpegs(pre, last.folderPaths[k])
    IN  IF r.kind = "array" THEN r.items ELSE <<>>

\* The number of entries the folders before folder k contribute.
RECURSIVE FolderOffset(_)
FolderOffset(k) ==
    IF k = 1 THEN 0 ELSE FolderOffset(k - 1) + Len(FolderPart(k - 1))

\* C7: scanMultipleFolders returns the scanJpegs results of the folders whose
\* scan succeeds, concatenated in the order of the folder list; a folder
\* whose scan fails contributes nothing and the folders after it are still
\* scanned; entries of the same name from different folders are all kept;
\* the empty folder list yields the empty array.
C7_ScanMultipleFoldersConcatenates ==
    last.op = "scanMultipleFolders" =>
        /\ Len(last.ret) = FolderOffset(Len(last.folderPaths) + 1)
        /\ \A k \in 1..Len(last.folderPaths) :
              \A j \in 1..Len(FolderPart(k)) :
                  last.ret[FolderOffset(k) + j] = FolderPart(k)[j]
        /\ last.folderPaths = <<>> => last.ret = <<>>

\* A scan of A, the missing folder N and B that lists a.jpg of A and a.jpg
\* of B.
C7_Witness ==
    /\ last.op = "scanMultipleFolders"
    /\ last.folderPaths = << <<n_A>>, <<n_N>>, <<n_B>> >>
    /\ last.ret = << [name |-> n_a_jpg, path |-> <<n_A, n_a_jpg>>],
                     [name |-> n_a_jpg, path |-> <<n_B, n_a_jpg>>] >>

Distance(a, b) == IF a >= b THEN a - b ELSE b - a

\* C9: estimateScanTime returns estimatedMs = remainingFiles * avgMsPerFile
\* and formatted "< 10 sec" below 10000 ms, "~30 sec" from 10000 to below
\* 45000, "~1 min" from 45000 to below 90000, and "~N min" from 90000 on,
\* with N >= 2 the integer nearest to estimatedMs / 60000.
C9_EstimateScanTimeBands ==
    last.op = "estimateScanTime" =>
        LET ms == last.remainingFiles * last.avgMsPerFile
            text == last.ret.formatted
        IN  /\ last.ret.estimatedMs = ms
            /\ ms < 10000 => text = "< 10 sec"
            /\ (10000 <= ms /\ ms < 45000) => text = "~30 sec"
            /\ (45000 <= ms /\ ms < 90000) => text = "~1 min"
            /\ ms >= 90000 =>
                  \E N \in 2..(ms \div 60000 + 1) :
                      /\ 2 * Distance(60000 * N, ms) <= 60000
                      /\ text = "~" \o ToString(N) \o " min"

\* The boundary value 10000 ms, formatted "~30 sec".
C9_Witness ==
    /\ last.op = "estimateScanTime"
    /\ last.remainingFiles > 1
    /\ last.ret = [estimatedMs |-> 10000, formatted |-> "~30 sec"]

\* 150000 ms, which is 2.5 minutes, formatted "~3 min".
C9_WitnessMinutes ==
    /\ last.op = "estimateScanTime"
    /\ last.ret = [estimatedMs |-> 150000, formatted |-> "~3 min"]

\* The decoder of the round-trip test, Buffer.from(text, "base64"): the
\* number a character stands for, and four characters turned back into
\* three bytes, or into one or two bytes before "=" padding.
Base64Index(c) ==
    IF \E x \in 0..63 : Base64Alphabet[x + 1] = c
    THEN CHOOSE x \in 0..63 : Base64Alphabet[x + 1] = c
    ELSE 0

RECURSIVE Base64Decode(_)
Base64Decode(text) ==
    IF Len(text) < 4 THEN <<>>
    ELSE LET a == Base64Index(text[1])
             b == Base64Index(text[2])
             c == Base64Index(text[3])
             d == Base64Index(text[4])
             b1 == a * 4 + b \div 16
             b2 == (b % 16) * 16 + c \div 4
             b3 == (c % 4) * 64 + d
         IN  IF text[3] = "=" THEN <<b1>>
             ELSE IF text[4] = "=" THEN <<b1, b2>>
             ELSE <<b1, b2, b3>> \o Base64Decode(SubSeq(text, 5, Len(text)))

\* C11: whenever readFileBase64 returns a string for a file, decoding that
\* string from base64 yields exactly the bytes of the file: the same
\* length and the same bytes in the same order.
C11_Base64RoundTrip ==
    (last.op = "readFileBase64" /\ last.ret.type = "string") =>
        /\ IsFile(pre, last.filePath)
        /\ Base64Decode(last.ret.value) = pre[last.filePath].bytes

\* A file of MaxBytes bytes, FF D8 .. 89, whose last group of the encoding
\* may be padded, read and decoded back.
C11_Witness ==
    /\ last.op = "readFileBase64"
    /\ last.ret.type = "string"
    /\ IsFile(pre, last.filePath)
    /\ Len(pre[last.filePath].bytes) = MaxBytes
    /\ pre[last.filePath].bytes[MaxBytes] = 137
    /\ Base64Decode(last.ret.value) = pre[last.filePath].bytes

\* A file whose length is no multiple of three, so that its encoding ends
\* with "=".
C11_WitnessPadded ==
    /\ last.op = "readFileBase64"
    /\ last.ret.type = "string"
    /\ Len(pre[last.filePath].bytes) % 3 # 0
    /\ last.ret.value[Len(last.ret.value)] = "="
    /\ Base64Decode(last.ret.value) = pre[last.filePath].bytes

\* C15: validateJpeg and readFileBase64 agree on every path and content:
\* validateJpeg returns {valid: true} if and only if readFileBase64 returns
\* a base64 string, and when both reject a readable file for its content
\* both report the error text "not a valid JPEG".
C15_ValidateAgreesWithRead ==
    last.op \in {"validateJpeg", "readFileBase64"} =>
        LET v == IF last.op = "validateJpeg" THEN last.ret
                 ELSE validateJpeg(pre, last.filePath)
            r == IF last.op = "readFileBase64" THEN last.ret
                 ELSE readFileBase64(pre, last.filePath)
        IN  /\ (v = [valid |-> TRUE]) <=> (r.type = "string")
            /\ (v.valid <=> ~HasProperty(v, "error"))
            /\ (r.type = "object" <=> HasProperty(r, "error"))
            /\ (IsFile(pre, last.filePath) /\ ~v.valid) =>
                   /\ v.error = "not a valid JPEG"
                   /\ r.error = "not a valid JPEG"

\* The one-byte file FF: validateJpeg rejects it for the zero in its header
\* buffer, readFileBase64 for its length, both as "not a valid JPEG".
C15_Witness ==
    /\ last.op = "validateJpeg"
    /\ IsFile(pre, last.filePath)
    /\ pre[last.filePath].bytes = <<255>>
    /\ last.ret.error = "not a valid JPEG"
    /\ readFileBase64(pre, last.filePath) =
           [type |-> "object", error |-> "not a valid JPEG"]

\* A file FF D8 .., accepted by both.
C15_WitnessAccepted ==
    /\ last.op = "readFileBase64"
    /\ last.ret.type = "string"
    /\ Len(pre[last.filePath].bytes) > 2
    /\ validateJpeg(pre, last.filePath) = [valid |-> TRUE]

\* A missing path, rejected by both.
C15_WitnessMissing ==
    /\ last.op = "validateJpeg"
    /\ ~Exists(pre, last.filePath)
    /\ ~last.ret.valid
    /\ readFileBase64(pre, last.filePath).type = "object"

\* The entry at a path: the node there, or nothing.
EntryAt(f, p) == IF Exists(f, p) THEN {f[p]} ELSE {}

DestOf(k) == Join(last.ret.reviewDir, Basename(last.files[k]))

\* The file system after the first k move attempts of the last moveToReview
\* call as its results report them: the attempts reported with success =
\* true have renamed their file, the others have done nothing.
RECURSIVE FsAsReported(_)
FsAsReported(k) ==
    IF k = 0
    THEN IF Exists(pre, last.ret.reviewDir) THEN pre
         ELSE mkdirSync(pre, last.ret.reviewDir).fs
    ELSE IF last.ret.results[k].success /\ last.files[k] # DestOf(k)
         THEN Renamed(FsAsReported(k - 1), last.files[k], DestOf(k))
    ELSE FsAsReported(k - 1)

\* C16: a failed move changes nothing for its file: the file system after a
\* moveToReview call is the one in which exactly the moves reported with
\* success = true have renamed their file, so that after an attempt
\* reported with success = false the entry at the input path (present or
\* absent) and the entry at reviewDir/<base name> are what they were before
\* it, and every entry that has changed is the source or the destination of
\* a move reported with success = true.
C16_FailedMoveChangesNothing ==
    Returned =>
        LET n == Len(last.files)
        IN  /\ Len(last.ret.results) = n
            /\ fs = FsAsReported(n)
            /\ (n > 0 /\ ~last.ret.results[n].success) =>
                  /\ EntryAt(fs, last.files[n]) =
                        EntryAt(FsAsReported(n - 1), last.files[n])
                  /\ EntryAt(fs, DestOf(n)) = EntryAt(FsAsReported(n - 1), DestOf(n))
            /\ \A p \in DOMAIN fs \cup DOMAIN FsAsReported(0) :
                  EntryAt(fs, p) # EntryAt(FsAsReported(0), p) =>
                      \E k \in 1..n : /\ last.ret.results[k].success
                                       /\ p \in {last.files[k], DestOf(k)}

\* A move of the photo A/a.jpg into R/sub, where a.jpg is a directory: the
\* move is reported as failed, the photo is still at A/a.jpg and the
\* directory still at R/sub/a.jpg.
C16_Witness ==
    /\ Returned
    /\ last.files = << <<n_A, n_a_jpg>> >>
    /\ last.ret.reviewDir = <<n_R, n_sub>>
    /\ ~last.ret.results[1].success
    /\ IsFile(pre, <<n_A, n_a_jpg>>)
    /\ EntryAt(fs, <<n_A, n_a_jpg>>) = EntryAt(pre, <<n_A, n_a_jpg>>)
    /\ IsDir(fs, <<n_R, n_sub, n_a_jpg>>)

\* A call that moves A/a.jpg and then fails to move it a second time: the
\* second attempt leaves the path absent and the moved photo in place.
C16_WitnessAfterSuccess ==
    /\ Returned
    /\ last.files = << <<n_A, n_a_jpg>>, <<n_A, n_a_jpg>> >>
    /\ last.ret.results[1].success
    /\ ~last.ret.results[2].success
    /\ ~Exists(fs, <<n_A, n_a_jpg>>)
    /\ EntryAt(fs, DestOf(2)) = EntryAt(pre, <<n_A, n_a_jpg>>)

\* The paths handed to the last moveToReview call, and those of them whose
\* move it reports with success = true.
FilesOfMove == { last.files[k] : k \in 1..Len(last.files) }

SucceededOfMove ==
    IF last.ret.threw THEN {}
    ELSE { last.files[k] : k \in { i \in 1..Len(last.files) :
                                     last.ret.results[i].success } }

\* The entries of an earlier scan without those at the paths in gone.
EntriesMinus(items, gone) == SelectSeq(items, LAMBDA e : e.path \notin gone)

ListsNames(ret, paths) ==
    /\ ret.kind = "array"
    /\ \A p \in paths :
          \E k \in 1..Len(ret.items) : ret.items[k].name = Basename(p)

\* C17 as stated: after moveToReview({files: paths of F, sourceFolder: S})
\* for a subset F of the entries of scanJpegs(S), a new scanJpegs(S) returns
\* exactly the earlier entries minus F, and scanJpegs(S/review_blurry)
\* lists an entry for every name in F.
C17_ScanAfterMoveAsStated ==
    [][ (last.op = "moveToReview" /\ last'.op = "scanJpegs") =>
          LET S == ValueOf(last.sourceFolder)
          IN  /\ last'.folderPath = S =>
                    last'.ret = [kind |-> "array",
                                 items |-> EntriesMinus(last.scanned, FilesOfMove)]
              /\ last'.folderPath = Join(S, n_review_blurry) =>
                    ListsNames(last'.ret, FilesOfMove) ]_vars

\* C17: after moveToReview({files: paths of F, sourceFolder: S}) for a
\* subset F of the entries of scanJpegs(S), a new scanJpegs(S) returns
\* exactly the earlier entries minus the files of F whose move is reported
\* with success = true, in the earlier order (the review_blurry subfolder
\* is not descended into or listed, and a file whose move failed is still
\* listed), and scanJpegs(S/review_blurry) lists an entry for every name of
\* F whose move is reported with success = true.
C17_ScanAfterMove ==
    [][ (last.op = "moveToReview" /\ last'.op = "scanJpegs") =>
          LET S == ValueOf(last.sourceFolder)
          IN  /\ last'.folderPath = S =>
                    last'.ret = [kind |-> "array",
                                 items |-> EntriesMinus(last.scanned,
                                                        SucceededOfMove)]
              /\ last'.folderPath = Join(S, n_review_blurry) =>
                    /\ SucceededOfMove # {} => ListsNames(last'.ret, SucceededOfMove)
                    /\ \A p \in FilesOfMove \ SucceededOfMove :
                          EntryAt(fs', Join(last'.folderPath, Basename(p))) =
                             EntryAt(pre, Join(last'.folderPath, Basename(p))) ]_vars

\* Folder A scanned again after a.jpg was moved out of it into a review
\* folder that did not exist: the scan returns b.jpg alone, although the
\* photo now lies in A/review_blurry.
C17_Witness ==
    /\ last.op = "scanJpegs"
    /\ last.folderPath = <<n_A>>
    /\ moves = 1
    /\ ~Exists(fs0, <<n_A, n_review_blurry>>)
    /\ fs0[<<n_A, n_a_jpg>>] = Photo(1)
    /\ ~Exists(fs, <<n_A, n_a_jpg>>)
    /\ fs[<<n_A, n_review_blurry, n_a_jpg>>] = Photo(1)
    /\ IsFile(fs, <<n_A, n_b_jpg>>)
    /\ last.ret = [kind |-> "array",
                   items |-> <<[name |-> n_b_jpg, path |-> <<n_A, n_b_jpg>>]>>]

\* The review folder scanned after both photos of A were moved into it.
C17_WitnessReview ==
    /\ last.op = "scanJpegs"
    /\ last.folderPath = <<n_A, n_review_blurry>>
    /\ moves = 1
    /\ IsFile(fs0, <<n_A, n_a_jpg>>) /\ IsFile(fs0, <<n_A, n_b_jpg>>)
    /\ ~Exists(fs, <<n_A, n_a_jpg>>) /\ ~Exists(fs, <<n_A, n_b_jpg>>)
    /\ last.ret.kind = "array"
    /\ { last.ret.items[k].name : k \in 1..Len(last.ret.items) } =
          { n_a_jpg, n_b_jpg }

\* Folder A scanned again after a move that failed because A/review_blurry
\* is a regular file: a.jpg is still listed.
C17_WitnessFailed ==
    /\ last.op = "scanJpegs"
    /\ last.folderPath = <<n_A>>
    /\ moves = 1
    /\ IsFile(fs, <<n_A, n_review_blurry>>)
    /\ fs = fs0
    /\ Len(last.ret.items) = 2

\* a < b for two fractions with positive denominators.
Less(a, b) == a.num * b.den < b.num * a.den

LowLimit(T) == [num |-> T * LowRatioNum, den |-> RatioDen]
HighLimit(T) == [num |-> T * HighRatioNum, den |-> RatioDen]

Rank(band) ==
    IF band = "blurry" THEN 1 ELSE IF band = "borderline" THEN 2
    ELSE IF band = "sharp" THEN 3 ELSE 0

\* The band b is the one the claim C12 names for the score s and threshold T.
BandAsClaimed(b, s, T) ==
    /\ b \in {"blurry", "borderline", "sharp"}
    /\ (b = "blurry") <=> Less(s, LowLimit(T))
    /\ (b = "borderline") <=> (~Less(s, LowLimit(T)) /\ Less(s, HighLimit(T)))
    /\ (b = "sharp") <=> ~Less(s, HighLimit(T))

\* C12: for a threshold T > 0 and every score >= 0 the classification
\* yields exactly one band: blurry when score < T*lowRatio, borderline when
\* T*lowRatio <= score < T*highRatio, sharp when score >= T*highRatio; the
\* bands lie in the order blurry < borderline < sharp: a higher score never
\* gets a lower band.
C12_BandsPartitionTheScores ==
    /\ last.op = "classify" =>
          /\ BandAsClaimed(last.ret, last.score, last.threshold)
          /\ Less(LowLimit(last.threshold), HighLimit(last.threshold))
          /\ \A s \in ScoreInputs :
                Less(last.score, s) =>
                    Rank(Classify(s, last.threshold)) >= Rank(last.ret)
    /\ (last.op = "score" /\ ~HasProperty(last.ret, "error")) =>
          BandAsClaimed(last.ret.band, last.ret.score, last.config.threshold)

\* The score 8 with the threshold 10: the lower limit of the borderline
\* band itself, classified borderline.
C12_Witness ==
    /\ last.op = "classify"
    /\ last.score = [num |-> 8, den |-> 1]
    /\ last.threshold = 10
    /\ last.ret = "borderline"

\* The default threshold with the scores 50 (blurry) and 200 (sharp).
C12_WitnessBlurry ==
    /\ last.op = "classify"
    /\ last.score = [num |-> 50, den |-> 1]
    /\ last.threshold = DefaultThreshold
    /\ last.ret = "blurry"

C12_WitnessSharp ==
    /\ last.op = "classify"
    /\ last.score = [num |-> 200, den |-> 1]
    /\ last.threshold = DefaultThreshold
    /\ last.ret = "sharp"

\* What the claims C13 and C14 call a structurally valid image, and an
\* image in which every pixel has the same intensity.
ValidImage(image) ==
    /\ image.width > 0
    /\ image.height > 0
    /\ Len(image.pixels) = image.width * image.height * image.channels

UniformImage(image) ==
    \A i, j \in 1..(image.width * image.height) :
        Grayscale(image)[i] = Grayscale(image)[j]

\* C13: a valid image in which every pixel has the same intensity, and a
\* valid image with width < 3 or height < 3, is scored without an error,
\* with fullFrameVariance = 0, centerVariance = 0, score = 0 and the band
\* blurry, for any threshold > 0.
C13_DegenerateImagesScoreZero ==
    (/\ last.op = "score"
     /\ ValidImage(last.image)
     /\ last.config.threshold > 0
     /\ \/ UniformImage(last.image)
        \/ last.image.width < 3
        \/ last.image.height < 3) =>
        /\ ~HasProperty(last.ret, "error")
        /\ last.ret.fullFrameVariance.num = 0
        /\ last.ret.centerVariance.num = 0
        /\ last.ret.score.num = 0
        /\ last.ret.band = "blurry"

\* A MaxWidth x MaxHeight image of intensity 50 everywhere, scored 0.
C13_Witness ==
    /\ last.op = "score"
    /\ last.image.width = MaxWidth /\ last.image.height = MaxHeight
    /\ last.image.channels = 1
    /\ Len(last.image.pixels) = MaxWidth * MaxHeight
    /\ \A k \in 1..Len(last.image.pixels) : last.image.pixels[k] = 50
    /\ last.ret.score.num = 0
    /\ last.ret.band = "blurry"

\* A striped image of width 2, which has no interior pixel, scored 0.
C13_WitnessTiny ==
    /\ last.op = "score"
    /\ ValidImage(last.image)
    /\ last.image.width = 2 /\ last.image.height = MaxHeight
    /\ ~UniformImage(last.image)
    /\ last.ret.score.num = 0
    /\ last.ret.band = "blurry"

\* An image of three channels with the same colour at every pixel.
C13_WitnessColour ==
    /\ last.op = "score"
    /\ ValidImage(last.image)
    /\ last.image.channels = 3
    /\ last.image.width >= 3 /\ last.image.height >= 3
    /\ \E k \in 1..Len(last.image.pixels) : last.image.pixels[k] # 0
    /\ \E k \in 1..Len(last.image.pixels) : last.image.pixels[k] = 0
    /\ UniformImage(last.image)
    /\ last.ret.score.num = 0

\* An image that is neither uniform nor tiny and has a score above 0.
C13_WitnessContrast ==
    /\ last.op = "score"
    /\ ValidImage(last.image)
    /\ ~UniformImage(last.image)
    /\ last.ret.score.num > 0
    /\ last.ret.band = "sharp"

\* C14: score returns InvalidImageError exactly when width <= 0, height <= 0
\* or the length of the pixel buffer differs from width*height*channels,
\* and a ScoreResult for every other image.
C14_RejectsInvalidImagesOnly ==
    last.op = "score" =>
        IF \/ last.image.width <= 0
           \/ last.image.height <= 0
           \/ Len(last.image.pixels) #
                 last.image.width * last.image.height * last.image.channels
        THEN last.ret = [error |-> "InvalidImageError"]
        ELSE /\ DOMAIN last.ret =
                   {"score", "band", "fullFrameVariance", "centerVariance"}
             /\ last.ret.score.num >= 0 /\ last.ret.score.den > 0
             /\ last.ret.band \in {"blurry", "borderline", "sharp"}

\* A 4 x 3 image of one channel with a buffer of 13 values, rejected.
C14_Witness ==
    /\ last.op = "score"
    /\ last.image.width = 4 /\ last.image.height = 3
    /\ last.image.channels = 1
    /\ Len(last.image.pixels) = 13
    /\ last.ret = [error |-> "InvalidImageError"]

\* An image of width 0 with the empty buffer, whose length is
\* width*height*channels, rejected for its width.
C14_WitnessZeroWidth ==
    /\ last.op = "score"
    /\ last.image.width = 0 /\ last.image.height = 3
    /\ last.image.pixels = <<>>
    /\ last.ret = [error |-> "InvalidImageError"]

\* A 1 x 1 image, valid and scored.
C14_WitnessScored ==
    /\ last.op = "score"
    /\ last.image.width = 1 /\ last.image.height = 1
    /\ Len(last.image.pixels) = last.image.channels
    /\ HasProperty(last.ret, "score")

====
